---- MODULE Spec2Model ----
(***************************************************************************)
(* The replay engine of F1-stats-replay (src/replay.py, run_replay and the *)
(* per-driver columns of draw_leaderboard) as a state machine.             *)
(*                                                                         *)
(* Units.  Race time (pd.Timedelta) is counted in whole seconds, relative  *)
(* to the first event after the normalisation of line 209.  The playback   *)
(* speed (a float) is counted in eighths, so 1.0 is 8 and 0.25 is 2; the   *)
(* wall-clock delta of one loop iteration is drawn from Deltas, whose      *)
(* members make real_time_delta * playback_speed a whole number of         *)
(* seconds.  NaT is the empty tuple and a present duration d is <<d>>.     *)
(*                                                                         *)
(* Fields of the driver record that are plain copies of the event and are  *)
(* read by the renderer only (Compound, TyreLife, GapToLeader, Interval,   *)
(* IsPersonalBestS1..3) are left out.                                      *)
(***************************************************************************)
EXTENDS Integers, Sequences, FiniteSets, TLC

VARIABLES
    scenario,           \* which data set was loaded (lines 208-211)
    pc,                 \* position in run_replay: "setup" | "loop" | "done", or
                        \* "error" once the handler of line 323 has reported
    current_race_time,
    is_paused,
    playback_speed,     \* in eighths
    event_index,
    driver_state,       \* Abbreviation -> record (line 239)
    best_s1_so_far, best_s2_so_far, best_s3_so_far,
    frame,              \* what the last draw_leaderboard call was given
    ghost,              \* history: per driver, which event set what
    drained,            \* history: <<index, driver>> of the events applied by the last drain
    last_frame_time,    \* counted from the clock reading of the latest iteration
                        \* (line 262): 0 is that reading, -n is n seconds before it
    rewinds,            \* history: number of 'left' keys handled so far
    probe,              \* history: the driver states at the race time a rewind left
    ledger              \* history: the race time the keys and the unpaused real
                        \* time account for, in eighths of a second

vars == <<scenario, pc, current_race_time, is_paused, playback_speed, event_index,
          driver_state, best_s1_so_far, best_s2_so_far, best_s3_so_far,
          frame, last_frame_time, ghost, drained, rewinds, probe, ledger>>

----------------------------------------------------------------------------
(* Bounds of the model *)

MaxOvershoot == 12      \* no iteration takes the clock further than this past the last event
MaxRewinds == 2         \* 'left' keys per run
MaxSpeed == 16          \* playback_speed is not doubled beyond 2.0

Deltas == {4, 8}        \* wall-clock seconds between the clock readings of two iterations

----------------------------------------------------------------------------
(* Program constants *)

DEFAULT_PLAYBACK_SPEED == 8
OVERTAKE_ARROW_DURATION == 4
RETIREMENT_THRESHOLD == 120
SKIP_SECONDS == 10
MIN_PLAYBACK_SPEED == 2
INITIAL_UPDATE_TIME == -1

NaT == <<>>
TimedeltaMax == <<>>    \* pd.Timedelta.max: above every sector time

pd_notna(x) == x # NaT

POS_GAIN == "GAIN"      \* f"{POS_GAIN_COLOR}▲{RESET}"
POS_LOSS == "LOSS"      \* f"{POS_LOSS_COLOR}▼{RESET}"

Keys == {"none", "q", "p", "up", "down", "1", "right", "left", "other"}

Max(a, b) == IF a >= b THEN a ELSE b

----------------------------------------------------------------------------
(* The loaded data: the timeline parquet and results.pkl *)

Ev(t, drv, lap, pos, type, dur) ==
    [Time |-> t, Driver |-> drv, LapNumber |-> lap, Position |-> pos, EventType |-> type,
     Sector1Time |-> IF type = "Sector1" THEN <<dur>> ELSE NaT,
     Sector2Time |-> IF type = "Sector2" THEN <<dur>> ELSE NaT,
     Sector3Time |-> IF type = "Lap" THEN <<dur>> ELSE NaT,
     LapTime     |-> IF type = "Lap" THEN <<3 * dur>> ELSE NaT]

\* Two cars, two laps: A pits at the end of lap 1 and rejoins behind B, then
\* takes the place back in sector 2 of lap 2.  Session-absolute times.
RaceTimeline ==
    << Ev(10, "A", 1, 1, "Sector1", 30), Ev(12, "B", 1, 2, "Sector1", 31),
       Ev(14, "A", 1, 1, "Sector2", 32), Ev(16, "B", 1, 2, "Sector2", 33),
       Ev(18, "A", 1, 1, "Lap",     34), Ev(18, "A", 1, 1, "PitIn",   0),
       Ev(20, "B", 1, 2, "Lap",     35), Ev(22, "A", 2, 2, "PitOut",  0),
       Ev(24, "B", 2, 1, "Sector1", 29), Ev(26, "A", 2, 2, "Sector1", 36),
       Ev(30, "A", 2, 1, "Sector2", 28), Ev(31, "B", 2, 2, "Sector2", 37),
       Ev(38, "A", 2, 1, "Lap",     27), Ev(40, "B", 2, 2, "Lap",     38) >>

\* A stops after its first sector; B completes the only lap.
RetireTimeline ==
    << Ev(5, "A", 1, 1, "Sector1", 30), Ev(7, "B", 1, 2, "Sector1", 31),
       Ev(70, "B", 1, 1, "Sector2", 60), Ev(135, "B", 1, 1, "Lap", 62) >>

\* A completes the only lap at once; B is not heard of again until it
\* completes it two minutes later.
FinishTimeline ==
    << Ev(5, "A", 1, 1, "Sector1", 30), Ev(7, "B", 1, 2, "Sector1", 31),
       Ev(9, "A", 1, 1, "Lap", 32), Ev(135, "B", 1, 2, "Lap", 62) >>

\* Two cars, two laps, B five seconds behind A; the events of lap 2 carry B in
\* position 1 and A in position 2.
E2ETimeline ==
    << Ev(10, "A", 1, 1, "Sector1", 30), Ev(15, "B", 1, 2, "Sector1", 30),
       Ev(20, "A", 1, 1, "Sector2", 30), Ev(25, "B", 1, 2, "Sector2", 30),
       Ev(30, "A", 1, 1, "Lap",     30), Ev(35, "B", 1, 2, "Lap",     30),
       Ev(40, "A", 2, 2, "Sector1", 30), Ev(45, "B", 2, 1, "Sector1", 30),
       Ev(50, "A", 2, 2, "Sector2", 30), Ev(55, "B", 2, 1, "Sector2", 30),
       Ev(60, "A", 2, 2, "Lap",     30), Ev(65, "B", 2, 1, "Lap",     30) >>

\* A parquet file that is not in time order: the third row is earlier than the second.
UnsortedTimeline ==
    << Ev(5, "A", 1, 1, "Sector1", 30), Ev(9, "B", 1, 2, "Sector1", 31),
       Ev(7, "A", 1, 1, "Sector2", 32), Ev(11, "B", 1, 2, "Lap", 33) >>

\* A parquet file with a row of driver Z, who is not in results.pkl.
UnknownTimeline ==
    << Ev(5, "A", 1, 1, "Sector1", 30), Ev(7, "Z", 1, 2, "Sector1", 31),
       Ev(9, "A", 1, 1, "Lap", 32) >>

\* A short race of one lap.
SprintTimeline ==
    << Ev(5, "A", 1, 1, "Sector1", 30), Ev(7, "B", 1, 2, "Sector1", 31),
       Ev(9, "A", 1, 1, "Lap", 32), Ev(11, "B", 1, 2, "Lap", 33) >>

\* A long stop: B comes into the pits after its first sector and leaves them
\* more than two minutes later, while A goes on and completes the only lap.
RedFlagTimeline ==
    << Ev(5, "A", 1, 1, "Sector1", 30), Ev(7, "B", 1, 2, "Sector1", 31),
       Ev(9, "B", 1, 2, "PitIn", 0),    Ev(70, "A", 1, 1, "Sector2", 60),
       Ev(140, "B", 1, 2, "PitOut", 0), Ev(145, "A", 1, 1, "Lap", 62) >>

Scenarios == {"race", "retire", "finish", "empty"}

MalformedScenarios == {"unsorted", "unknown"}

RawTimeline(sc) ==
    CASE sc = "race"     -> RaceTimeline
      [] sc = "retire"   -> RetireTimeline
      [] sc = "finish"   -> FinishTimeline
      [] sc = "e2e"      -> E2ETimeline
      [] sc = "unsorted" -> UnsortedTimeline
      [] sc = "unknown"  -> UnknownTimeline
      [] sc = "sprint"   -> SprintTimeline
      [] sc = "redflag"  -> RedFlagTimeline
      [] OTHER           -> << >>

\* results_df rows, in file order
Results(sc) ==
    CASE sc = "retire" -> << [Abbreviation |-> "B", GridPosition |-> 2, Status |-> "Finished"],
                             [Abbreviation |-> "A", GridPosition |-> 1, Status |-> "Retired"] >>
      [] OTHER         -> << [Abbreviation |-> "A", GridPosition |-> 1, Status |-> "Finished"],
                             [Abbreviation |-> "B", GridPosition |-> 2, Status |-> "Finished"] >>

\* line 209: times become relative to the first event
first_event_time(raw) == IF raw = << >> THEN 0 ELSE raw[1].Time

NormalizeTimes(raw) ==
    [i \in 1..Len(raw) |-> [raw[i] EXCEPT !.Time = raw[i].Time - first_event_time(raw)]]

RaceEvents == NormalizeTimes(RaceTimeline)

RetireEvents == NormalizeTimes(RetireTimeline)

FinishEvents == NormalizeTimes(FinishTimeline)

E2EEvents == NormalizeTimes(E2ETimeline)

UnsortedEvents == NormalizeTimes(UnsortedTimeline)

UnknownEvents == NormalizeTimes(UnknownTimeline)

SprintEvents == NormalizeTimes(SprintTimeline)

RedFlagEvents == NormalizeTimes(RedFlagTimeline)

\* line 242
timeline_events(sc) ==
    CASE sc = "race"     -> RaceEvents
      [] sc = "retire"   -> RetireEvents
      [] sc = "finish"   -> FinishEvents
      [] sc = "e2e"      -> E2EEvents
      [] sc = "unsorted" -> UnsortedEvents
      [] sc = "unknown"  -> UnknownEvents
      [] sc = "sprint"   -> SprintEvents
      [] sc = "redflag"  -> RedFlagEvents
      [] OTHER           -> << >>

total_events(sc) == Len(timeline_events(sc))

RECURSIVE MaxLap(_, _)
MaxLap(evs, n) == IF n = 0 THEN 0 ELSE Max(evs[n].LapNumber, MaxLap(evs, n - 1))

RaceLaps == MaxLap(RaceEvents, Len(RaceEvents))

RetireLaps == MaxLap(RetireEvents, Len(RetireEvents))

FinishLaps == MaxLap(FinishEvents, Len(FinishEvents))

E2ELaps == MaxLap(E2EEvents, Len(E2EEvents))

UnsortedLaps == MaxLap(UnsortedEvents, Len(UnsortedEvents))

UnknownLaps == MaxLap(UnknownEvents, Len(UnknownEvents))

SprintLaps == MaxLap(SprintEvents, Len(SprintEvents))

RedFlagLaps == MaxLap(RedFlagEvents, Len(RedFlagEvents))

\* line 243
total_laps(sc) ==
    CASE sc = "race"     -> RaceLaps
      [] sc = "retire"   -> RetireLaps
      [] sc = "finish"   -> FinishLaps
      [] sc = "e2e"      -> E2ELaps
      [] sc = "unsorted" -> UnsortedLaps
      [] sc = "unknown"  -> UnknownLaps
      [] sc = "sprint"   -> SprintLaps
      [] sc = "redflag"  -> RedFlagLaps
      [] OTHER           -> 0

drivers(sc) == [i \in 1..Len(Results(sc)) |-> Results(sc)[i].Abbreviation]

DriverSet(sc) == {drivers(sc)[i] : i \in 1..Len(drivers(sc))}

ResultRow(sc, drv) == Results(sc)[CHOOSE i \in 1..Len(Results(sc)) : Results(sc)[i].Abbreviation = drv]

FinalStatus(sc, drv) == ResultRow(sc, drv).Status

\* track_status.pkl, weather_data.pkl and race_control.pkl in session-absolute
\* time; a file that is missing is the empty frame (lines 214-219).  A message
\* is the sequence of its words.
RaceTrackStatus ==
    << [Time |-> 15, Status |-> "2"], [Time |-> 25, Status |-> "4"], [Time |-> 35, Status |-> "1"] >>

RaceWeather ==
    << [Time |-> 12, Rainfall |-> FALSE], [Time |-> 30, Rainfall |-> TRUE] >>

RaceControlLog ==
    << [Time |-> 20, Message |-> <<"DRS", "ENABLED">>],
       [Time |-> 22, Message |-> <<"YELLOW", "IN", "TRACK", "SECTOR", "3">>],
       [Time |-> 33, Message |-> <<"DRS", "DISABLED">>] >>

RetireControlLog ==
    << [Time |-> 6, Message |-> <<"CAR", "A", "STOPPED">>] >>

track_status_df(sc) == IF sc = "race" THEN RaceTrackStatus ELSE << >>

weather_df(sc) == IF sc = "race" THEN RaceWeather ELSE << >>

race_control_df(sc) ==
    CASE sc = "race"   -> RaceControlLog
      [] sc = "retire" -> RetireControlLog
      [] OTHER         -> << >>

\* str.contains / "in" on a message, word by word
str_contains(message, word) == \E i \in 1..Len(message) : message[i] = word

\* str.upper on the words that occur
upper_word(w) ==
    CASE w = "enabled"  -> "ENABLED"
      [] w = "disabled" -> "DISABLED"
      [] w = "drs"      -> "DRS"
      [] OTHER          -> w

upper(message) == [i \in 1..Len(message) |-> upper_word(message[i])]

IsDrsMessage(row) == str_contains(row.Message, "DRS")

\* lines 225-232: the DRS timeline made of the race-control messages
drs_timeline(rc) ==
    IF rc = << >> THEN << >>
    ELSE LET drs_messages == SelectSeq(rc, IsDrsMessage)
         IN  IF drs_messages = << >> THEN << >>
             ELSE << [Time |-> 0, DRS_Status |-> FALSE] >>
                  \o [i \in 1..Len(drs_messages) |->
                        [Time       |-> drs_messages[i].Time,
                         DRS_Status |-> str_contains(upper(drs_messages[i].Message), "ENABLED")]]

RaceDrs == drs_timeline(RaceControlLog)

RetireDrs == drs_timeline(RetireControlLog)

drs_status_df(sc) ==
    CASE sc = "race"   -> RaceDrs
      [] sc = "retire" -> RetireDrs
      [] OTHER         -> << >>

\* line 239
InitialDriverState(row) ==
    [Position |-> row.GridPosition, PreviousPosition |-> row.GridPosition, LapNumber |-> 0,
     Status |-> "On Track", DisplayStatus |-> "GRID", LastEventType |-> "", LastEventLap |-> 0,
     PitStops |-> 0, S1 |-> NaT, S2 |-> NaT, S3 |-> NaT, Prev_S2 |-> NaT, Prev_S3 |-> NaT,
     PreviousLapTime |-> NaT, LastUpdateTime |-> INITIAL_UPDATE_TIME,
     PositionChangeSymbol |-> "", PositionChangeExpiry |-> INITIAL_UPDATE_TIME]

InitialGrid(sc) == [d \in DriverSet(sc) |-> InitialDriverState(ResultRow(sc, d))]

InitialGhost == [SetAt |-> NaT, SetLap |-> NaT, S1Lap |-> NaT, S2Lap |-> NaT, S3Lap |-> NaT]

----------------------------------------------------------------------------
(* Applying one event to its driver's record: lines 267-286 *)

\* faulty variant: the lap of the event is tested, not the lap of the driver's last event
PositionChangedByEventLap(state, event) ==
    event.Position # state.PreviousPosition /\ event.LapNumber > 1

\* line 268
PositionChanged(state, event) ==
    event.Position # state.PreviousPosition /\ state.LastEventLap > 1

\* faulty variant: the markers of gain and loss are swapped
ChangeSymbolSwapped(state, event) ==
    IF event.Position < state.PreviousPosition THEN POS_LOSS ELSE POS_GAIN

\* lines 269-270
ChangeSymbol(state, event) ==
    IF event.Position < state.PreviousPosition THEN POS_GAIN ELSE POS_LOSS

\* line 271
ChangeExpiry(event) == event.Time + OVERTAKE_ARROW_DURATION

\* faulty variant: Sector1 also clears IN PIT
NextDisplayStatusClearsPit(state, event) ==
    IF event.EventType = "PitIn" THEN "IN PIT"
    ELSE IF event.EventType = "PitOut" THEN "OUT"
    ELSE IF event.EventType = "Sector1"
            /\ state.DisplayStatus \in {"OUT", "GRID", "IN PIT"} THEN ""
    ELSE state.DisplayStatus

\* lines 273-275
NextDisplayStatus(state, event) ==
    IF event.EventType = "PitIn" THEN "IN PIT"
    ELSE IF event.EventType = "PitOut" THEN "OUT"
    ELSE IF event.EventType = "Sector1"
            /\ (state.DisplayStatus = "OUT" \/ state.DisplayStatus = "GRID") THEN ""
    ELSE state.DisplayStatus

\* line 274
NextPitStops(state, event) ==
    IF event.EventType = "PitOut" THEN state.PitStops + 1 ELSE state.PitStops

\* line 276
LapAdvanced(state, event) == event.LapNumber > state.LastEventLap

\* lines 267-286, the record of the event's driver
apply(state, event) ==
    LET changed == PositionChanged(state, event)
        newlap  == LapAdvanced(state, event)
        type    == event.EventType
    IN  [Position             |-> event.Position,
         PreviousPosition     |-> event.Position,
         LapNumber            |-> event.LapNumber,
         Status               |-> state.Status,
         DisplayStatus        |-> NextDisplayStatus(state, event),
         LastEventType        |-> type,
         LastEventLap         |-> event.LapNumber,
         PitStops             |-> NextPitStops(state, event),
         S1                   |-> IF type = "Sector1" THEN event.Sector1Time
                                  ELSE IF newlap THEN NaT ELSE state.S1,
         S2                   |-> IF type = "Sector2" THEN event.Sector2Time
                                  ELSE IF newlap THEN NaT ELSE state.S2,
         S3                   |-> IF type = "Lap" THEN event.Sector3Time
                                  ELSE IF newlap THEN NaT ELSE state.S3,
         Prev_S2              |-> IF newlap THEN state.S2 ELSE state.Prev_S2,
         Prev_S3              |-> IF newlap THEN state.S3 ELSE state.Prev_S3,
         PreviousLapTime      |-> IF type = "Lap" THEN event.LapTime ELSE state.PreviousLapTime,
         LastUpdateTime       |-> event.Time,
         PositionChangeSymbol |-> IF changed THEN ChangeSymbol(state, event)
                                  ELSE state.PositionChangeSymbol,
         PositionChangeExpiry |-> IF changed THEN ChangeExpiry(event)
                                  ELSE state.PositionChangeExpiry]

\* History of the same step: the time and lap of the event that set the
\* indicator, and the lap of the event that wrote each sector field.
applyGhost(g, state, event) ==
    LET changed == PositionChanged(state, event)
        newlap  == LapAdvanced(state, event)
        type    == event.EventType
        lap     == <<event.LapNumber>>
    IN  [SetAt  |-> IF changed THEN <<event.Time>> ELSE g.SetAt,
         SetLap |-> IF changed THEN lap ELSE g.SetLap,
         S1Lap  |-> IF type = "Sector1" THEN (IF pd_notna(event.Sector1Time) THEN lap ELSE NaT)
                    ELSE IF newlap THEN NaT ELSE g.S1Lap,
         S2Lap  |-> IF type = "Sector2" THEN (IF pd_notna(event.Sector2Time) THEN lap ELSE NaT)
                    ELSE IF newlap THEN NaT ELSE g.S2Lap,
         S3Lap  |-> IF type = "Lap" THEN (IF pd_notna(event.Sector3Time) THEN lap ELSE NaT)
                    ELSE IF newlap THEN NaT ELSE g.S3Lap]

\* lines 280, 283, 286
BestUpdate(best, val) ==
    IF pd_notna(val) /\ (best = TimedeltaMax \/ val[1] < best[1]) THEN val ELSE best

\* faulty variant: the drain leaves an event stamped exactly at the race time for later
DrainConditionStrict(evs, idx, t) == idx < Len(evs) /\ evs[idx + 1].Time < t

\* line 265, the guard of the drain loop
DrainCondition(evs, idx, t) == idx < Len(evs) /\ evs[idx + 1].Time <= t

\* line 267: the record an event is applied to
Owner(event) == event.Driver

\* lines 267-287: one pass of the body of the drain loop; driver_state[drv]
\* raises KeyError for a driver that is not in results.pkl, before the pass has
\* written anything
ApplyEvent(evs, st) ==
    LET event == evs[st.event_index + 1]
        drv   == Owner(event)
        state == st.driver_state[drv]
        type  == event.EventType
    IN  IF drv \notin DOMAIN st.driver_state THEN [st EXCEPT !.raised = TRUE] ELSE
        [raised       |-> FALSE,
         event_index  |-> st.event_index + 1,
         driver_state |-> [st.driver_state EXCEPT ![drv] = apply(state, event)],
         ghost        |-> [st.ghost EXCEPT ![drv] = applyGhost(st.ghost[drv], state, event)],
         b1           |-> IF type = "Sector1" THEN BestUpdate(st.b1, event.Sector1Time) ELSE st.b1,
         b2           |-> IF type = "Sector2" THEN BestUpdate(st.b2, event.Sector2Time) ELSE st.b2,
         b3           |-> IF type = "Lap" THEN BestUpdate(st.b3, event.Sector3Time) ELSE st.b3,
         drained      |-> Append(st.drained, <<st.event_index, drv>>)]

\* lines 265-287; the record that one pass leaves is worked out once and
\* handed to the next pass as a value
RECURSIVE Drain(_, _, _)
Drain(evs, st, t) ==
    IF ~st.raised /\ DrainCondition(evs, st.event_index, t)
    THEN CHOOSE after \in {Drain(evs, applied, t) : applied \in {ApplyEvent(evs, st)}} : TRUE
    ELSE st

----------------------------------------------------------------------------
(* The status pass: lines 288-292 *)

\* line 291
HasFinished(sc, state) ==
    state.LastEventLap >= total_laps(sc) /\ state.LastEventType = "Lap"

\* line 292
IsSilent(state, t) == (t - state.LastUpdateTime) > RETIREMENT_THRESHOLD

\* faulty variant: the silence test comes before the finish test
StatusOfSilenceFirst(sc, drv, state, t) ==
    IF state.Status = "On Track"
    THEN IF IsSilent(state, t)
         THEN [state EXCEPT !.Status = "DNF", !.DisplayStatus = "DNF"]
         ELSE IF HasFinished(sc, state)
              THEN [state EXCEPT !.Status = FinalStatus(sc, drv),
                                 !.DisplayStatus = FinalStatus(sc, drv)]
              ELSE state
    ELSE state

\* lines 289-292, one driver
StatusOf(sc, drv, state, t) ==
    IF state.Status = "On Track"
    THEN IF HasFinished(sc, state)
         THEN [state EXCEPT !.Status = FinalStatus(sc, drv), !.DisplayStatus = FinalStatus(sc, drv)]
         ELSE IF IsSilent(state, t)
              THEN [state EXCEPT !.Status = "DNF", !.DisplayStatus = "DNF"]
              ELSE state
    ELSE state

StatusPass(sc, ds, t) == [d \in DOMAIN ds |-> StatusOf(sc, d, ds[d], t)]

----------------------------------------------------------------------------
(* Input handling and the clock: lines 253-264 *)

\* line 256
PauseAfterKey(key, paused) == IF key = "p" THEN ~paused ELSE paused

\* line 257
speed_up(speed) == speed * 2

\* faulty variant: halving without the floor
speed_down_unclamped(speed) == speed \div 2

\* line 258
speed_down(speed) == Max(MIN_PLAYBACK_SPEED, speed \div 2)

\* lines 257-259
SpeedAfterKey(key, speed) ==
    IF key = "up" THEN speed_up(speed)
    ELSE IF key = "down" THEN speed_down(speed)
    ELSE IF key = "1" THEN 8
    ELSE speed

\* line 260
skip_forward(t) == t + SKIP_SECONDS

\* faulty variant: the subtraction without the clamp
skip_backward_unclamped(evs, t) == t - SKIP_SECONDS

\* line 261, the new race time
skip_backward(evs, t) == Max(evs[1].Time, t - SKIP_SECONDS)

\* faulty variant: a change of speed rescales the race time already elapsed
TimeAfterKeyRescaling(evs, key, t) ==
    IF key = "right" THEN skip_forward(t)
    ELSE IF key = "left" THEN skip_backward(evs, t)
    ELSE IF key = "up" THEN evs[1].Time + (t - evs[1].Time) * 2
    ELSE IF key = "down" THEN evs[1].Time + (t - evs[1].Time) \div 2
    ELSE t

\* lines 260-261
TimeAfterKey(evs, key, t) ==
    IF key = "right" THEN skip_forward(t)
    ELSE IF key = "left" THEN skip_backward(evs, t)
    ELSE t

\* variant: the rewind also gives every driver its grid record back
RewindToGrid(st) ==
    [st EXCEPT !.event_index = 0,
               !.driver_state = [d \in DOMAIN st.driver_state |->
                                   InitialDriverState(ResultRow(scenario, d))]]

\* line 261: what 'left' does besides moving the clock
Rewind(st) == [st EXCEPT !.event_index = 0]

\* faulty variant: the advancement without the speed multiplier
race_time_delta_unscaled(real_time_delta, speed) == real_time_delta

\* line 264: pd.Timedelta(seconds=real_time_delta * playback_speed)
race_time_delta(real_time_delta, speed) == (real_time_delta * speed) \div 8

\* faulty variant: the reading is kept as last_frame_time by unpaused iterations
\* only, so that a pause leaves last_frame_time further and further behind
last_frame_time_unpaused_only(paused, real_time_now, last) ==
    IF paused THEN last - real_time_now ELSE 0

\* line 262: last_frame_time = real_time_now in every iteration, paused or not;
\* counted from that reading it is 0
last_frame_time_after(paused, real_time_now, last) == real_time_now - real_time_now

\* history: what a key does to the account of the race time (eighths)
LedgerAfterKey(evs, key, account) ==
    IF key = "right" THEN account + 80
    ELSE IF key = "left"
         THEN (IF account - 80 < evs[1].Time * 8 THEN evs[1].Time * 8 ELSE account - 80)
    ELSE account

----------------------------------------------------------------------------
(* The frame: what draw_leaderboard shows of each driver, lines 112-126 *)

\* faulty variant: the indicator is still shown at its expiry time
arrow_inclusive(state, t) ==
    IF pd_notna(t) /\ t[1] <= state.PositionChangeExpiry THEN state.PositionChangeSymbol ELSE ""

\* line 113; t is NaT for the starting grid (current_race_time None)
arrow(state, t) ==
    IF pd_notna(t) /\ t[1] < state.PositionChangeExpiry THEN state.PositionChangeSymbol ELSE ""

\* faulty variant: the stored display status is shown as it is
shown_status_stored(state) == state.DisplayStatus

\* lines 125-126
shown_status(state) ==
    IF state.Status # "On Track" THEN state.Status ELSE state.DisplayStatus

draw_leaderboard(kind, ds, sorted_drivers, t, status_info) ==
    [kind        |-> kind,
     time        |-> t,
     ranking     |-> sorted_drivers,
     status_info |-> status_info,
     arrow       |-> [d \in DOMAIN ds |-> arrow(ds[d], t)],
     status      |-> [d \in DOMAIN ds |-> shown_status(ds[d])]]

NoFrame ==
    [kind |-> "none", time |-> NaT, ranking |-> << >>, status_info |-> << >>,
     arrow |-> << >>, status |-> << >>]

----------------------------------------------------------------------------
(* The ranking: line 294 *)

\* faulty variant: the ranking goes by position alone
sort_key_position_only(ds, d) == <<0, ds[d].Position>>

\* the key of the lambda
sort_key(ds, d) == <<IF ds[d].Status = "On Track" THEN 0 ELSE 1, ds[d].Position>>

\* tuple comparison a <= b
KeyLE(a, b) == a[1] < b[1] \/ (a[1] = b[1] /\ a[2] <= b[2])

\* sorted() is stable: a driver goes behind every driver already placed whose
\* key is not greater
RECURSIVE sorted(_, _)
sorted(seq, ds) ==
    IF seq = << >> THEN << >>
    ELSE LET n    == Len(seq)
             rest == sorted(SubSeq(seq, 1, n - 1), ds)
             k    == sort_key(ds, seq[n])
             ahead == Cardinality({i \in 1..Len(rest) : KeyLE(sort_key(ds, rest[i]), k)})
         IN  SubSeq(rest, 1, ahead) \o <<seq[n]>> \o SubSeq(rest, ahead + 1, Len(rest))

----------------------------------------------------------------------------
(* The status line: lines 297-312 *)

\* faulty variant: the samples are looked up at the race time, not the session time
session_time_unshifted(sc, t) == t

\* the time the three series are looked up at
session_time(sc, t) == t + first_event_time(RawTimeline(sc))

\* df[df['Time'] <= q]
UpTo(df, q) == SelectSeq(df, LAMBDA row : row.Time <= q)

\* lines 298-301
current_track_status_code(sc, t) ==
    LET current_statuses == UpTo(track_status_df(sc), session_time(sc, t))
    IN  IF track_status_df(sc) # << >> /\ current_statuses # << >>
        THEN current_statuses[Len(current_statuses)].Status ELSE "1"

\* lines 302-305
is_wet(sc, t) ==
    LET current_weather == UpTo(weather_df(sc), session_time(sc, t))
    IN  IF weather_df(sc) # << >> /\ current_weather # << >>
        THEN current_weather[Len(current_weather)].Rainfall = TRUE ELSE FALSE

\* lines 307-310
drs_allowed(sc, t) ==
    LET drs_events == UpTo(drs_status_df(sc), session_time(sc, t))
    IN  IF drs_status_df(sc) # << >> /\ drs_events # << >>
        THEN drs_events[Len(drs_events)].DRS_Status ELSE FALSE

\* line 312
status_info(sc, t) ==
    [track_status |-> current_track_status_code(sc, t),
     drs_allowed  |-> drs_allowed(sc, t),
     is_wet       |-> is_wet(sc, t)]

\* line 246, the status line of the starting grid
GridStatusInfo == [track_status |-> "1", drs_allowed |-> FALSE, is_wet |-> FALSE]

----------------------------------------------------------------------------
(* run_replay *)

Engine ==
    [raised |-> FALSE,
     event_index |-> event_index, driver_state |-> driver_state, ghost |-> ghost,
     b1 |-> best_s1_so_far, b2 |-> best_s2_so_far, b3 |-> best_s3_so_far, drained |-> << >>]

\* lines 263-292: what an unpaused iteration does to the engine at race time t
\* (the drain, worked out once, then the status pass unless the drain raised)
Advance(sc, st, t) ==
    CHOOSE result \in {IF after.raised THEN after
                        ELSE [after EXCEPT !.driver_state = StatusPass(sc, after.driver_state, t)] :
                        after \in {Drain(timeline_events(sc), st, t)}} : TRUE

ProbeOff == [phase |-> "off", time |-> 0, ds |-> << >>]
ProbeForward == [phase |-> "forward", time |-> 0, ds |-> << >>]
ProbeVoid == [phase |-> "void", time |-> 0, ds |-> << >>]

PlainKeys == {"none", "other", "up", "down", "1"}

\* History for the rewind experiment: "forward" while every iteration so far was
\* an unpaused tick without a skip; "rewound" from the 'left' key that ends such
\* a run (remembering the race time and the driver states it left) for as long
\* as unpaused ticks without a skip have not yet brought the clock back there.
NextProbe(key, paused) ==
    CASE probe.phase = "off" -> probe
      [] probe.phase = "forward" ->
            IF paused THEN ProbeVoid
            ELSE IF key \in PlainKeys THEN probe
            ELSE IF key = "left" /\ frame.kind = "loop" /\ current_race_time > 0
                 THEN [phase |-> "rewound", time |-> current_race_time, ds |-> driver_state]
            ELSE ProbeVoid
      [] probe.phase = "rewound" ->
            IF ~paused /\ key \in PlainKeys /\ current_race_time < probe.time
            THEN probe ELSE ProbeVoid
      [] OTHER -> probe

\* lines 254-316 for a key other than 'q', the clock reading of line 262 being
\* real_time_now seconds after that of the previous iteration; an exception
\* raised in the drain leaves the loop for the handler of line 323 with what
\* was written so far
LoopBody(key, real_time_now) ==
    LET evs    == timeline_events(scenario)
        real_time_delta == real_time_now - last_frame_time
        paused == PauseAfterKey(key, is_paused)
        speed  == SpeedAfterKey(key, playback_speed)
        t1     == TimeAfterKey(evs, key, current_race_time)
        st1    == IF key = "left" THEN Rewind(Engine) ELSE Engine
        t2     == IF paused THEN t1 ELSE t1 + race_time_delta(real_time_delta, speed)
    IN  /\ pc = "loop"
        /\ event_index < total_events(scenario)
        /\ t2 <= evs[Len(evs)].Time + MaxOvershoot
        /\ speed <= MaxSpeed
        /\ key = "left" => rewinds < MaxRewinds
        /\ \E st2 \in {IF paused THEN st1 ELSE Advance(scenario, st1, t2)} :
            /\ is_paused' = paused
            /\ playback_speed' = speed
            /\ current_race_time' = t2
            /\ event_index' = st2.event_index
            /\ driver_state' = st2.driver_state
            /\ ghost' = st2.ghost
            /\ best_s1_so_far' = st2.b1
            /\ best_s2_so_far' = st2.b2
            /\ best_s3_so_far' = st2.b3
            /\ drained' = st2.drained
            /\ last_frame_time' = last_frame_time_after(paused, real_time_now, last_frame_time)
            /\ rewinds' = IF key = "left" THEN rewinds + 1 ELSE rewinds
            /\ probe' = NextProbe(key, paused)
            /\ ledger' = LedgerAfterKey(evs, key, ledger)
                             + (IF paused THEN 0 ELSE real_time_now * speed)
            /\ frame' = IF st2.raised THEN frame
                         ELSE draw_leaderboard("loop", st2.driver_state,
                                               sorted(drivers(scenario), st2.driver_state),
                                               <<t2 - evs[1].Time>>, status_info(scenario, t2))
            /\ pc' = IF st2.raised THEN "error" ELSE "loop"
            /\ UNCHANGED scenario

\* faulty variant: the starting grid is drawn before the stream is looked at
SetupDrawsFirst ==
    /\ pc = "setup"
    /\ frame' = draw_leaderboard("grid", driver_state, drivers(scenario), NaT, GridStatusInfo)
    /\ IF total_events(scenario) = 0
       THEN /\ pc' = "error"
            /\ UNCHANGED <<current_race_time, is_paused, last_frame_time, ledger>>
       ELSE /\ pc' = "loop"
            /\ current_race_time' = timeline_events(scenario)[1].Time
            /\ is_paused' = FALSE
            /\ last_frame_time' = 0
            /\ ledger' = timeline_events(scenario)[1].Time * 8
    /\ UNCHANGED <<scenario, playback_speed, event_index, driver_state, best_s1_so_far,
                   best_s2_so_far, best_s3_so_far, ghost, drained, rewinds, probe>>

\* lines 241-249
Setup ==
    /\ pc = "setup"
    /\ IF total_events(scenario) = 0
       THEN \* line 243: int() of the NaN maximum of an empty column raises before
            \* the test of line 244 is reached; the handler of line 323 reports it
            /\ pc' = "error"
            /\ UNCHANGED <<current_race_time, is_paused, frame, last_frame_time, ledger>>
       ELSE /\ pc' = "loop"
            /\ frame' = draw_leaderboard("grid", driver_state, drivers(scenario), NaT,
                                         GridStatusInfo)
            /\ current_race_time' = timeline_events(scenario)[1].Time
            /\ is_paused' = FALSE
            /\ last_frame_time' = 0
            /\ ledger' = timeline_events(scenario)[1].Time * 8
    /\ UNCHANGED <<scenario, playback_speed, event_index, driver_state, best_s1_so_far,
                   best_s2_so_far, best_s3_so_far, ghost, drained, rewinds, probe>>

\* One iteration of the loop for each thing get_user_input can return
Tick ==
    /\ pc = "loop"
    /\ \E key \in {"none", "other"}, d \in Deltas : LoopBody(key, d)

PauseToggle ==
    /\ pc = "loop"
    /\ \E d \in Deltas : LoopBody("p", d)

SpeedUp ==
    /\ pc = "loop"
    /\ \E d \in Deltas : LoopBody("up", d)

SpeedDown ==
    /\ pc = "loop"
    /\ \E d \in Deltas : LoopBody("down", d)

SpeedReset ==
    /\ pc = "loop"
    /\ \E d \in Deltas : LoopBody("1", d)

SkipForward ==
    /\ pc = "loop"
    /\ \E d \in Deltas : LoopBody("right", d)

SkipBackward ==
    /\ pc = "loop"
    /\ \E d \in Deltas : LoopBody("left", d)

\* line 255
Quit ==
    /\ pc = "loop"
    /\ event_index < total_events(scenario)
    /\ pc' = "done"
    /\ UNCHANGED <<scenario, current_race_time, is_paused, playback_speed, event_index,
                   driver_state, best_s1_so_far, best_s2_so_far, best_s3_so_far,
                   frame, last_frame_time, ghost, drained, rewinds, probe, ledger>>

\* faulty variant: the loop condition is off by one (event_index <= total_events)
LoopExitOffByOne ==
    /\ pc = "loop"
    /\ ~(event_index <= total_events(scenario))
    /\ pc' = "done"
    /\ UNCHANGED <<scenario, current_race_time, is_paused, playback_speed, event_index,
                   driver_state, best_s1_so_far, best_s2_so_far, best_s3_so_far,
                   frame, last_frame_time, ghost, drained, rewinds, probe, ledger>>

\* line 251, the loop condition failing
LoopExit ==
    /\ pc = "loop"
    /\ ~(event_index < total_events(scenario))
    /\ pc' = "done"
    /\ UNCHANGED <<scenario, current_race_time, is_paused, playback_speed, event_index,
                   driver_state, best_s1_so_far, best_s2_so_far, best_s3_so_far,
                   frame, last_frame_time, ghost, drained, rewinds, probe, ledger>>

InitEngine ==
    /\ pc = "setup"
    /\ current_race_time = 0
    /\ is_paused = FALSE
    /\ playback_speed = DEFAULT_PLAYBACK_SPEED
    /\ event_index = 0
    /\ driver_state = InitialGrid(scenario)
    /\ best_s1_so_far = TimedeltaMax
    /\ best_s2_so_far = TimedeltaMax
    /\ best_s3_so_far = TimedeltaMax
    /\ frame = NoFrame
    /\ ghost = [d \in DriverSet(scenario) |-> InitialGhost]
    /\ drained = << >>
    /\ rewinds = 0
    /\ last_frame_time = 0
    /\ ledger = 0

Init ==
    /\ scenario \in Scenarios
    /\ probe = ProbeOff
    /\ InitEngine

\* the same program on the two-lap race, with the rewind experiment recorded
InitRewind ==
    /\ scenario = "race"
    /\ probe = ProbeForward
    /\ InitEngine

\* the same program on a timeline file that breaks the input contract
InitMalformed ==
    /\ scenario \in MalformedScenarios
    /\ probe = ProbeOff
    /\ InitEngine

\* the same program on the two-car stream of the end-to-end example
InitE2E ==
    /\ scenario = "e2e"
    /\ probe = ProbeOff
    /\ InitEngine

\* the same program on the short race
InitSprint ==
    /\ scenario = "sprint"
    /\ probe = ProbeOff
    /\ InitEngine

\* the same program on the race with the long stop
InitRedFlag ==
    /\ scenario = "redflag"
    /\ probe = ProbeOff
    /\ InitEngine

Next ==
    \/ Setup
    \/ Tick
    \/ PauseToggle
    \/ SpeedUp
    \/ SpeedDown
    \/ SpeedReset
    \/ SkipForward
    \/ SkipBackward
    \/ Quit
    \/ LoopExit

Spec == Init /\ [][Next]_vars

SpecRewind == InitRewind /\ [][Next]_vars

SpecMalformed == InitMalformed /\ [][Next]_vars

SpecE2E == InitE2E /\ [][Next]_vars

SpecRedFlag == InitRedFlag /\ [][Next]_vars

\* the loop goes on to its next iteration for as long as it has one: nothing
\* in an iteration blocks (get_user_input polls, the sleeps are bounded)
SpecFair == InitSprint /\ [][Next]_vars /\ WF_vars(Next)

----------------------------------------------------------------------------
(* Claims *)

InLoop == pc = "loop" /\ frame.kind = "loop"

\* C1: a run of unpaused ticks to race time T, a skip_backward, and unpaused
\* ticks back to race time T leave every driver's state as it was the first
\* time T was reached.
C1_RewindIdempotent ==
    (probe.phase = "rewound" /\ current_race_time = probe.time) => driver_state = probe.ds


Events == timeline_events(scenario)

\* the number of events due at race time t
Due(t) == Cardinality({i \in 1..Len(Events) : Events[i].Time <= t})

\* an iteration of the loop that drew a frame
Iterated == pc = "loop" /\ pc' = "loop" /\ frame'.kind = "loop"

\* the fields of a driver record that the status pass does not write
EventFields(state) == [state EXCEPT !.Status = "", !.DisplayStatus = ""]

\* C2: after an unpaused tick with race time t, event_index is the number of
\* events with time <= t, and the drain applied exactly the events from the old
\* index up to the new one, once each, in stream order, each to the record of
\* its own driver and to no other.
C2_DispatcherAdvance ==
    [][(Iterated /\ ~is_paused') =>
        LET old == IF rewinds' # rewinds THEN 0 ELSE event_index
            new == event_index'
        IN  /\ new = Due(current_race_time')
            /\ old <= new
            /\ drained' = [k \in 1..(new - old) |-> <<old + k - 1, Events[old + k].Driver>>]
            /\ \A d \in DriverSet(scenario) :
                  (\A i \in (old + 1)..new : Events[i].Driver # d)
                      => EventFields(driver_state'[d]) = EventFields(driver_state[d])
            /\ \A d \in DriverSet(scenario) :
                  (\E i \in (old + 1)..new : Events[i].Driver = d)
                      => LET last == CHOOSE i \in (old + 1)..new :
                                        /\ Events[i].Driver = d
                                        /\ \A j \in (i + 1)..new : Events[j].Driver # d
                         IN  /\ driver_state'[d].LastUpdateTime = Events[last].Time
                             /\ driver_state'[d].LastEventType = Events[last].EventType
                             /\ driver_state'[d].Position = Events[last].Position
      ]_vars

\* C2 witness: one drain applied events of both drivers and the two events of
\* driver A that share a timestamp, in stream order.
C2_Witness ==
    /\ InLoop /\ ~is_paused /\ scenario = "race"
    /\ \E k \in 1..(Len(drained) - 2) :
          /\ drained[k] = <<3, "B">>
          /\ drained[k + 1] = <<4, "A">>
          /\ drained[k + 2] = <<5, "A">>
    /\ driver_state["A"].LastEventType = "PitIn"

\* C3: skip_backward sets event_index to 0 and resets every driver's state to
\* the initial grid state (seen directly when the clock is paused, so that the
\* same iteration applies no event again).
C3_FullRewind ==
    [][(Iterated /\ rewinds' # rewinds /\ is_paused') =>
          /\ event_index' = 0
          /\ driver_state' = InitialGrid(scenario)
      ]_vars

\* C4: an unpaused tick with wall-clock delta d adds exactly d * speed to the
\* race time (on top of the 10 s of a skip_forward in the same tick); a paused
\* tick without a skip changes neither the race time, nor event_index, nor a
\* driver state, nor a session-best tracker.  Speeds are in eighths.
C4_ClockTick ==
    [][\A key \in Keys \ {"q", "left"}, d \in Deltas :
          LoopBody(key, d) =>
              LET skipped == IF key = "right" THEN 10 ELSE 0
              IN  /\ ~is_paused' =>
                        current_race_time' * 8 =
                            (current_race_time + skipped) * 8 + d * playback_speed'
                  /\ (is_paused' /\ key # "right") =>
                        UNCHANGED <<current_race_time, event_index, driver_state,
                                    best_s1_so_far, best_s2_so_far, best_s3_so_far>>
      ]_vars

\* C4 witness: paused at race time 1 s, which only an unpaused tick at speed
\* 0.25 reaches, with an event applied
C4_Witness ==
    /\ InLoop /\ is_paused /\ playback_speed = MIN_PLAYBACK_SPEED
    /\ current_race_time = 1 /\ event_index > 0

\* C5: the race time is never earlier than the first event's time, and a
\* skip_backward sets it to max(first event's time, race time - 10 s) (to which
\* the tick of the same iteration adds its advancement when not paused).
C5_SkipBackwardClamp ==
    /\ [](pc = "loop" => current_race_time >= Events[1].Time)
    /\ [][\A d \in Deltas :
            LoopBody("left", d) =>
                \E base \in {current_race_time - 10, Events[1].Time} :
                    /\ base >= current_race_time - 10
                    /\ base >= Events[1].Time
                    /\ current_race_time' * 8 =
                          base * 8 + (IF is_paused' THEN 0 ELSE d * playback_speed')
        ]_vars

\* C5 witness: a paused skip_backward from a race time in [4 s, 6 s) was clamped
\* to the first event's time
C5_Witness ==
    /\ InLoop /\ is_paused /\ rewinds = 1 /\ scenario = "race"
    /\ current_race_time = Events[1].Time
    /\ driver_state["A"].LastUpdateTime = 4
    /\ driver_state["B"].LastUpdateTime = 2

\* C6: the speed multiplier is always positive and at least 0.25 (2 eighths),
\* and speed_down at 0.25 leaves it at 0.25.
C6_SpeedBounds ==
    /\ [](playback_speed > 0 /\ playback_speed >= 2)
    /\ [][\A d \in Deltas : (LoopBody("down", d) /\ playback_speed = 2) => playback_speed' = 2]_vars

\* C6 witness: the speed is at its floor after at least three iterations from
\* the default speed
C6_Witness ==
    /\ InLoop /\ playback_speed = 2 /\ ~is_paused /\ current_race_time = 4 /\ event_index = 3

\* C7: an indicator set by an event at race time t0 is shown in every frame
\* with t0 <= t < t0 + 4 s and in no frame with t >= t0 + 4 s (t0 being the
\* time of the latest event of that driver that set an indicator).
C7_IndicatorWindow ==
    frame.kind = "loop" =>
        \A d \in DriverSet(scenario) :
            ghost[d].SetAt # NaT =>
                LET t0 == ghost[d].SetAt[1]
                    t  == frame.time[1]
                IN  /\ (t0 <= t /\ t < t0 + 4) => frame.arrow[d] \in {POS_GAIN, POS_LOSS}
                    /\ t >= t0 + 4 => frame.arrow[d] = ""

\* C7 witness: one frame in which an indicator set 4 s earlier is gone and
\* another, set 3 s earlier, is still shown
C7_Witness ==
    /\ InLoop /\ rewinds = 0 /\ scenario = "race"
    /\ ghost["A"].SetAt # NaT /\ frame.time[1] = ghost["A"].SetAt[1] + 4
    /\ frame.arrow["A"] = ""
    /\ ghost["B"].SetAt # NaT /\ frame.time[1] = ghost["B"].SetAt[1] + 3
    /\ frame.arrow["B"] = POS_LOSS

\* C8: the overtake indicator of a driver is only ever set by an event whose
\* lap_number is greater than 1.
C8_NoIndicatorOnLapOne ==
    \A d \in DriverSet(scenario) : ghost[d].SetLap # NaT => ghost[d].SetLap[1] > 1

\* C9: once a driver's first event of lap L is applied, each of s1/s2/s3 is
\* unset or was set by an event of lap L.
C9_SectorsOfCurrentLap ==
    \A d \in DriverSet(scenario) :
        driver_state[d].LastEventLap >= 1 =>
            /\ \A lap \in {ghost[d].S1Lap, ghost[d].S2Lap, ghost[d].S3Lap} :
                  lap = NaT \/ lap = <<driver_state[d].LastEventLap>>
            /\ (ghost[d].S1Lap = NaT) = (driver_state[d].S1 = NaT)
            /\ (ghost[d].S2Lap = NaT) = (driver_state[d].S2 = NaT)
            /\ (ghost[d].S3Lap = NaT) = (driver_state[d].S3 = NaT)

\* C10: a frame never shows as on track a driver that has not finished and
\* whose last applied event is more than 120 s of race time old: its status and
\* display_status are DNF in the frame drawn at that race time.
C10_SilentDriverIsDNF ==
    frame.kind = "loop" =>
        \A d \in DriverSet(scenario) :
            (/\ driver_state[d].Status = "On Track"
             /\ ~HasFinished(scenario, driver_state[d]))
                => current_race_time - driver_state[d].LastUpdateTime <= 120

\* the place of a driver in results.pkl
ResultIndex(d) == CHOOSE i \in 1..Len(drivers(scenario)) : drivers(scenario)[i] = d

\* the ranking r is a permutation of the drivers, on-track drivers first, each
\* group by position, equal positions in the order of results.pkl
Ranked(r) ==
    LET off(d) == driver_state[d].Status # "On Track"
        pos(d) == driver_state[d].Position
    IN  /\ Len(r) = Len(drivers(scenario))
        /\ {r[i] : i \in 1..Len(r)} = DriverSet(scenario)
        /\ \A i, j \in 1..Len(r) :
              i < j =>
                  /\ ~(off(r[i]) /\ ~off(r[j]))
                  /\ off(r[i]) = off(r[j]) => pos(r[i]) <= pos(r[j])
                  /\ (off(r[i]) = off(r[j]) /\ pos(r[i]) = pos(r[j]))
                        => ResultIndex(r[i]) < ResultIndex(r[j])

\* C11 as stated: the ranking of every emitted frame, the starting grid
\* included, is a permutation of the drivers with the on-track drivers first,
\* each group in non-decreasing position, ties in the order of the results list.
C11_EveryFrameRanked == frame.kind # "none" => Ranked(frame.ranking)

\* C11: the ranking of every frame emitted by the loop is a permutation of the
\* drivers with every on-track driver before every other driver, each group in
\* non-decreasing position, and drivers equal in both in the order of the
\* results list.
C11_LoopFramesRanked == frame.kind = "loop" => Ranked(frame.ranking)

\* C11 witness: a loop frame that ranks the on-track driver in position 2
\* ahead of the classified driver in position 1
C11_Witness ==
    /\ InLoop /\ scenario = "finish"
    /\ frame.ranking = <<"B", "A">>
    /\ driver_state["A"].Status = "Finished" /\ driver_state["A"].Position = 1
    /\ driver_state["B"].Status = "On Track" /\ driver_state["B"].Position = 2

\* the value of the last entry of a series at or before session time q, or
\* the default when there is none
Sampled(series, q, field, default) ==
    LET upto == {i \in 1..Len(series) : series[i].Time <= q}
    IN  IF upto = {} THEN default
        ELSE series[CHOOSE i \in upto : \A j \in upto : j <= i][field]

\* the session time of the frame: its race time plus the absolute time of the first event
FrameSessionTime == current_race_time + RawTimeline(scenario)[1].Time

\* C12: in every frame of the loop each of track status, wetness and DRS is
\* the value of the last entry of its series at or before the frame's race time
\* plus the absolute time of the first event; the default (green "1", not wet,
\* DRS off) when the series is absent, empty or has no entry that early; and
\* the value of the last entry from that entry's time on.
C12_AuxSampling ==
    frame.kind = "loop" =>
        LET q  == FrameSessionTime
            ts == track_status_df(scenario)
            w  == weather_df(scenario)
            drs == drs_status_df(scenario)
        IN  /\ frame.status_info.track_status = Sampled(ts, q, "Status", "1")
            /\ frame.status_info.is_wet = Sampled(w, q, "Rainfall", FALSE)
            /\ frame.status_info.drs_allowed = Sampled(drs, q, "DRS_Status", FALSE)
            /\ (ts # << >> /\ q >= ts[Len(ts)].Time)
                  => frame.status_info.track_status = ts[Len(ts)].Status
            /\ (w # << >> /\ q >= w[Len(w)].Time)
                  => frame.status_info.is_wet = w[Len(w)].Rainfall
            /\ (drs # << >> /\ q >= drs[Len(drs)].Time)
                  => frame.status_info.drs_allowed = drs[Len(drs)].DRS_Status

\* C12 witness: the frame at session time 25 s, the very time of a track-status
\* entry, shows that entry's code, DRS enabled since 20 s and a dry track
C12_Witness ==
    /\ InLoop /\ scenario = "race" /\ FrameSessionTime = 25
    /\ frame.status_info = [track_status |-> "4", drs_allowed |-> TRUE, is_wet |-> FALSE]

\* C13: on an empty stream the engine reports an error and returns without
\* entering the loop: it goes from the setup straight to the error report, no
\* event is applied, no frame is drawn (the starting grid neither) and no key
\* is read (keys are read in the loop only).
C13_EmptyStream ==
    /\ [](total_events(scenario) = 0 =>
            /\ pc \in {"setup", "error"}
            /\ frame = NoFrame
            /\ event_index = 0 /\ drained = << >>
            /\ driver_state = InitialGrid(scenario)
            /\ best_s1_so_far = TimedeltaMax /\ best_s2_so_far = TimedeltaMax
            /\ best_s3_so_far = TimedeltaMax
            /\ rewinds = 0 /\ is_paused = FALSE /\ playback_speed = DEFAULT_PLAYBACK_SPEED)
    /\ [][(total_events(scenario) = 0 /\ pc = "setup") => pc' = "error"]_vars

\* C13 witness: the run on the empty stream has ended in the error report
C13_Witness == scenario = "empty" /\ pc = "error" /\ total_events(scenario) = 0

\* the stream is not in time order, or names a driver that is not in the results
Malformed ==
    \/ \E i \in 1..(Len(Events) - 1) : Events[i].Time > Events[i + 1].Time
    \/ \E i \in 1..Len(Events) : Events[i].Driver \notin DriverSet(scenario)

\* C14: a stream that is not sorted by time or has an event of a driver that
\* is not in the results is refused before the loop starts: the run goes from
\* the setup to the error report, no event of it is applied and no frame drawn.
C14_MalformedRejected ==
    Malformed =>
        /\ pc \in {"setup", "error"}
        /\ frame = NoFrame
        /\ event_index = 0
        /\ driver_state = InitialGrid(scenario)

\* a frame of forward play whose state holds exactly the events due at its time
Processed == frame.kind = "loop" /\ rewinds = 0 /\ event_index = Due(current_race_time)

\* C15 as stated, times on the clock of the stream (A's first event at 10 s):
\* after forward play through 30 s A's indicator is empty and the ranking is
\* [A, B]; from 45 s on the ranking is [B, A], and A's indicator shows the loss
\* marker in every frame before 49 s and not from 49 s on.
C15_EndToEnd ==
    (scenario = "e2e" /\ Processed) =>
        LET t == FrameSessionTime
        IN  /\ (30 <= t /\ t < 40) =>
                  /\ driver_state["A"].PositionChangeSymbol = ""
                  /\ frame.ranking = <<"A", "B">>
            /\ t >= 45 => frame.ranking = <<"B", "A">>
            /\ (45 <= t /\ t < 49) => frame.arrow["A"] = POS_LOSS
            /\ t >= 49 => frame.arrow["A"] = ""

\* C15: on the two-car stream, after forward play through 30 s A's indicator is
\* empty and the ranking is [A, B]; from 45 s on the ranking is [B, A]; and A's
\* indicator is never set and shows no marker in any frame, before 49 s or
\* after (A's change of position comes with its first event of lap 2, when its
\* last applied event is still one of lap 1).
C15_EndToEndNoMarker ==
    (scenario = "e2e" /\ Processed) =>
        LET t == FrameSessionTime
        IN  /\ (30 <= t /\ t < 40) =>
                  /\ driver_state["A"].PositionChangeSymbol = ""
                  /\ frame.ranking = <<"A", "B">>
            /\ t >= 45 => frame.ranking = <<"B", "A">>
            /\ driver_state["A"].PositionChangeSymbol = ""
            /\ frame.arrow["A"] = ""

\* C15 witness: a frame between 45 s and 49 s, B's first event of lap 2 applied,
\* ranks B first and shows no marker for A
C15_Witness ==
    /\ scenario = "e2e" /\ Processed /\ InLoop
    /\ FrameSessionTime >= 45 /\ FrameSessionTime < 49
    /\ event_index = 8
    /\ driver_state["A"].Position = 2 /\ driver_state["B"].Position = 1
    /\ frame.ranking = <<"B", "A">> /\ frame.arrow["A"] = ""

\* the time of the event applied to driver d's record before the k-th event of
\* the drain log: an earlier event of the log, or the one the record held before
AppliedBefore(log, k, d) ==
    LET mine == {j \in 1..(k - 1) : log[j][2] = d}
    IN  IF mine = {} THEN driver_state[d].LastUpdateTime
        ELSE Events[log[CHOOSE j \in mine : \A m \in mine : m <= j][1] + 1].Time

\* C16: whatever keys are pressed, skip_backward included, each event is
\* applied to a record whose last applied event is not later than it (the
\* record's last_update_time never decreases from one applied event to the
\* next), and the events of one drain are applied in stream order.
C16_PerDriverOrder ==
    [][Iterated =>
          \A k \in 1..Len(drained') :
              /\ Events[drained'[k][1] + 1].Time >= AppliedBefore(drained', k, drained'[k][2])
              /\ k > 1 => drained'[k][1] > drained'[k - 1][1]
      ]_vars

\* C17: in every frame of the loop, paused or not, and also in the tick of a
\* skip_forward or skip_backward, event_index is the number of events with
\* time <= the race time of the frame.
C17_FrameCaughtUp ==
    frame.kind = "loop" => event_index = Due(current_race_time)

\* the sector times of the events of one type that are due at race time t
SectorTimesDue(type, field, t) ==
    {Events[i][field][1] : i \in {j \in 1..Len(Events) :
                                    /\ Events[j].EventType = type
                                    /\ Events[j].Time <= t
                                    /\ pd_notna(Events[j][field])}}

\* the least of them, or unset
BestDue(type, field, t) ==
    LET due == SectorTimesDue(type, field, t)
    IN  IF due = {} THEN TimedeltaMax ELSE <<CHOOSE x \in due : \A y \in due : x <= y>>

\* C18, on the frames whose state holds exactly the events due: each
\* session-best sector time is the least sector time of the events of its type
\* (Sector1, Sector2, Lap) with time <= the race time, or unset if there is
\* none; after a skip_backward none is left over from an event later than the
\* new race time.
C18_SessionBests ==
    (frame.kind = "loop" /\ event_index = Due(current_race_time)) =>
        /\ best_s1_so_far = BestDue("Sector1", "Sector1Time", current_race_time)
        /\ best_s2_so_far = BestDue("Sector2", "Sector2Time", current_race_time)
        /\ best_s3_so_far = BestDue("Lap", "Sector3Time", current_race_time)

\* C19: applying an event e to the record s of its driver sets the indicator
\* if and only if e.position differs from s.previous_position and
\* s.last_event_lap > 1; it is then the gain marker if e.position is smaller
\* and the loss marker otherwise, with expiry e.time + 4 s; otherwise symbol and
\* expiry stay as they were; in both cases previous_position becomes
\* e.position.  Read off the iterations whose drain applied a single event.
C19_OvertakeStep ==
    [][(Iterated /\ Len(drained') = 1) =>
          LET e   == Events[drained'[1][1] + 1]
              d   == drained'[1][2]
              s   == driver_state[d]
              s2  == driver_state'[d]
              set == e.Position # s.PreviousPosition /\ s.LastEventLap > 1
          IN  /\ d = e.Driver
              /\ set =>
                    /\ s2.PositionChangeSymbol =
                          (IF e.Position < s.PreviousPosition THEN POS_GAIN ELSE POS_LOSS)
                    /\ s2.PositionChangeExpiry = e.Time + 4
              /\ ~set =>
                    /\ s2.PositionChangeSymbol = s.PositionChangeSymbol
                    /\ s2.PositionChangeExpiry = s.PositionChangeExpiry
              /\ s2.PreviousPosition = e.Position
      ]_vars

\* C19 witness: in forward play a drain applied only A's Sector2 event of lap 2
\* (position 1 after position 2, A's last event being of lap 2), which set the
\* gain marker with expiry 4 s after the event
C19_Witness ==
    /\ InLoop /\ scenario = "race" /\ rewinds = 0
    /\ drained = << <<10, "A">> >>
    /\ driver_state["A"].PositionChangeSymbol = POS_GAIN
    /\ driver_state["A"].PositionChangeExpiry = Events[11].Time + 4
    /\ driver_state["A"].PreviousPosition = 1
    /\ ghost["A"].SetAt = <<Events[11].Time>>

\* the driver records as the drain of the iteration leaves them to the status pass
BeforeStatusPass ==
    LET start == IF rewinds' # rewinds THEN Rewind(Engine) ELSE Engine
    IN  Drain(Events, start, current_race_time').driver_state

\* C20: in the status pass an on-track driver whose last event is a Lap event
\* of a lap >= total_laps gets the final classification as status and
\* display_status, and is not marked DNF even when its last event is more than
\* 120 s old; an on-track driver that does not meet the finish condition is
\* marked DNF exactly when its last event is more than 120 s old; a driver that
\* is not on track is not changed.
C20_FinishBeforeRetirement ==
    [][(Iterated /\ ~is_paused') =>
          \A before \in {BeforeStatusPass} : \A d \in DriverSet(scenario) :
              LET s   == before[d]
                  s2  == driver_state'[d]
                  fin == s.LastEventLap >= total_laps(scenario) /\ s.LastEventType = "Lap"
                  gap == current_race_time' - s.LastUpdateTime
                  classified == [s EXCEPT !.Status = FinalStatus(scenario, d),
                                          !.DisplayStatus = FinalStatus(scenario, d)]
                  retired == [s EXCEPT !.Status = "DNF", !.DisplayStatus = "DNF"]
              IN  /\ s.Status # "On Track" => s2 = s
                  /\ (s.Status = "On Track" /\ fin) => (s2 = classified /\ s2.Status # "DNF")
                  /\ (s.Status = "On Track" /\ ~fin /\ gap > 120) => s2 = retired
                  /\ (s.Status = "On Track" /\ ~fin /\ gap <= 120) => s2 = s
      ]_vars

\* C20 witness: one pass classified A, whose Lap event of the last lap the same
\* drain had applied more than 120 s behind the clock, as Finished, and marked
\* B, silent for as long without having finished, as DNF
C20_Witness ==
    /\ InLoop /\ scenario = "finish" /\ ~is_paused
    /\ \E k \in 1..Len(drained) : drained[k] = <<2, "A">>
    /\ current_race_time - driver_state["A"].LastUpdateTime > 120
    /\ driver_state["A"].Status = "Finished" /\ driver_state["A"].DisplayStatus = "Finished"
    /\ driver_state["B"].Status = "DNF" /\ driver_state["B"].LastEventType = "Sector1"

\* the display status and the pit-stop count after an event of the given type,
\* as the transitions are stated
StatedDisplay(display, type) ==
    CASE type = "PitIn"  -> "IN PIT"
      [] type = "PitOut" -> "OUT"
      [] type = "Sector1" /\ display \in {"OUT", "GRID"} -> ""
      [] OTHER -> display

StatedPitStops(pits, type) == IF type = "PitOut" THEN pits + 1 ELSE pits

\* the same after the first k events of a drain log, for driver d, from the
\* values rec held before the drain
RECURSIVE StatedAfter(_, _, _, _)
StatedAfter(log, k, d, rec) ==
    IF k = 0 THEN rec
    ELSE LET before == StatedAfter(log, k - 1, d, rec)
             type   == Events[log[k][1] + 1].EventType
         IN  IF log[k][2] # d THEN before
             ELSE [display |-> StatedDisplay(before.display, type),
                   pits    |-> StatedPitStops(before.pits, type)]

\* C21: PitIn sets display_status to IN PIT; PitOut sets it to OUT and adds
\* exactly 1 to pit_stops; Sector1 blanks it if it was OUT or GRID and leaves
\* it otherwise (IN PIT included); Sector2 and Lap leave it; pit_stops changes
\* on PitOut only.  Every drain leaves each driver with what these transitions
\* give, event by event, from what the record held before.
C21_DisplayStatusTransitions ==
    [][(Iterated /\ ~is_paused') =>
          \A before \in {BeforeStatusPass} : \A d \in DriverSet(scenario) :
              LET stated == StatedAfter(drained', Len(drained'), d,
                                        [display |-> driver_state[d].DisplayStatus,
                                         pits    |-> driver_state[d].PitStops])
              IN  /\ before[d].DisplayStatus = stated.display
                  /\ driver_state'[d].PitStops = stated.pits
      ]_vars

\* C21 witness: in forward play a drain applied A's PitOut alone, leaving OUT
\* and one pit stop where IN PIT and none were
C21_Witness ==
    /\ InLoop /\ scenario = "race" /\ rewinds = 0
    /\ drained = << <<7, "A">> >>
    /\ Events[8].EventType = "PitOut"
    /\ driver_state["A"].DisplayStatus = "OUT" /\ driver_state["A"].PitStops = 1

\* C22: an iteration with pause_toggle, speed_up, speed_down or speed_reset
\* changes, by the key, only the paused flag (pause_toggle) or the speed (the
\* other three: doubled, halved down to 0.25, set to 1.0); while paused it
\* leaves the race time, event_index, the driver states and the session bests
\* as they were; while running, the race time already elapsed is kept and only
\* the advancement of this tick, d * the new speed, is added, after which the
\* engine is what a tick without a key leaves at that race time.
C22_NonSkipControls ==
    [][\A key \in {"p", "up", "down", "1"}, d \in Deltas :
          LoopBody(key, d) =>
              /\ is_paused' = (IF key = "p" THEN ~is_paused ELSE is_paused)
              /\ playback_speed' =
                    (CASE key = "up"   -> playback_speed * 2
                       [] key = "down" -> (IF playback_speed \div 2 < 2 THEN 2
                                           ELSE playback_speed \div 2)
                       [] key = "1"    -> 8
                       [] OTHER        -> playback_speed)
              /\ is_paused' =>
                    UNCHANGED <<current_race_time, event_index, driver_state,
                                best_s1_so_far, best_s2_so_far, best_s3_so_far>>
              /\ ~is_paused' =>
                    /\ current_race_time' * 8 = current_race_time * 8 + d * playback_speed'
                    /\ \A after \in {Advance(scenario, Engine, current_race_time')} :
                          /\ event_index' = after.event_index
                          /\ driver_state' = after.driver_state
      ]_vars

\* C22 witness: running at speed 2.0 at race time 12 s with events applied, as
\* 4 s at speed 1.0 followed by speed_up in a tick of 4 s leave it
C22_Witness ==
    /\ InLoop /\ scenario = "race" /\ rewinds = 0 /\ ~is_paused
    /\ playback_speed = 16 /\ current_race_time = 12 /\ event_index = 8

\* C23: if from some point on the clock stays unpaused and no skip_backward
\* is issued (every tick has positive elapsed real time), the replay leaves the
\* loop; it leaves it for the end of run_replay only with event_index equal to
\* the number of events or on quit; and when the last event has been consumed
\* the frame of that tick, at the race time and with the driver states of the
\* exit, has been drawn.
C23_Termination ==
    /\ \A r \in 0..MaxRewinds :
          <>[](~is_paused /\ rewinds = r) => <>(pc # "setup" /\ pc # "loop")
    /\ [][(pc = "loop" /\ pc' = "done") =>
            (event_index = total_events(scenario) \/ Quit)]_vars
    /\ []((pc = "done" /\ event_index = total_events(scenario)) =>
            /\ frame.kind = "loop"
            /\ frame.time = <<current_race_time - Events[1].Time>>
            /\ current_race_time >= Events[Len(Events)].Time
            /\ frame.status = [d \in DriverSet(scenario) |-> shown_status(driver_state[d])])

\* C23 witness: the loop has exited after consuming the last event of the short race
\* in forward play, every driver classified in the last frame
C23_Witness ==
    /\ pc = "done" /\ scenario = "sprint" /\ rewinds = 0 /\ ~is_paused
    /\ event_index = total_events(scenario) /\ event_index = 4
    /\ frame.kind = "loop"
    /\ \A d \in DriverSet(scenario) : frame.status[d] = "Finished"

\* C24: once the status of a driver is anything other than On Track (DNF or
\* the final classification), no step changes it: no tick, no event applied
\* to the driver, no skip_forward and no skip_backward.
C24_OffTrackAbsorbing ==
    [][\A d \in DriverSet(scenario) :
          driver_state[d].Status # "On Track" =>
              driver_state'[d].Status = driver_state[d].Status
      ]_vars

\* C24 witness: after a skip_backward, A's Sector1 event has been applied again
\* to the record that the finish had classified, and A is still Finished
C24_Witness ==
    /\ InLoop /\ scenario = "finish" /\ rewinds = 1
    /\ \E k \in 1..Len(drained) : drained[k] = <<0, "A">>
    /\ driver_state["A"].LastEventType = "Sector1"
    /\ driver_state["A"].Status = "Finished"

\* C25 as stated: in every reachable state a driver whose status is not
\* On Track has a display status equal to its status.
C25_StatusAgreement ==
    \A d \in DriverSet(scenario) :
        driver_state[d].Status # "On Track" =>
            driver_state[d].DisplayStatus = driver_state[d].Status

\* C25 amended: the step that takes a driver off the track leaves its display
\* status equal to its status, and every frame of the loop shows the status of
\* a driver that is not On Track, whatever the stored display status has
\* become since.
C25_ShownStatusAgreement ==
    /\ [][\A d \in DriverSet(scenario) :
             (driver_state[d].Status = "On Track" /\ driver_state'[d].Status # "On Track") =>
                 driver_state'[d].DisplayStatus = driver_state'[d].Status
         ]_vars
    /\ [](frame.kind = "loop" =>
             \A d \in DriverSet(scenario) :
                 driver_state[d].Status # "On Track" =>
                     frame.status[d] = driver_state[d].Status)

\* C25 witness: in forward play B has been inferred DNF during its long stop,
\* its PitOut event has made the stored display status OUT, and the frame
\* shows DNF
C25_Witness ==
    /\ InLoop /\ scenario = "redflag" /\ rewinds = 0
    /\ driver_state["B"].Status = "DNF"
    /\ driver_state["B"].LastEventType = "PitOut"
    /\ driver_state["B"].DisplayStatus = "OUT"
    /\ frame.status["B"] = "DNF"

\* the position driver d had before event i of the timeline: that of d's
\* previous event, or the grid position
PositionBefore(i) ==
    LET d    == Events[i].Driver
        prev == {j \in 1..(i - 1) : Events[j].Driver = d}
    IN  IF prev = {} THEN ResultRow(scenario, d).GridPosition
        ELSE Events[CHOOSE j \in prev : \A k \in prev : k <= j].Position

\* event i gives driver d a cause for an indicator in a frame of race time t
RecentCause(i, d, t) ==
    /\ Events[i].Driver = d
    /\ Events[i].Position # PositionBefore(i)
    /\ Events[i].Time <= t
    /\ t < Events[i].Time + OVERTAKE_ARROW_DURATION

\* C26 as stated: in every frame of the loop, of race time t, a driver whose
\* overtake indicator is shown has an event with time t0, t0 <= t < t0 + 4 s,
\* that changed its position; no indicator set by an event later than t is
\* shown.
C26_IndicatorHasCause ==
    frame.kind = "loop" =>
        \A d \in DriverSet(scenario) :
            frame.arrow[d] # "" =>
                \E i \in 1..Len(Events) : RecentCause(i, d, frame.time[1])

\* C27: over any run the race time is the first event's time plus the real
\* time of the unpaused ticks times the speed, plus 10 s per skip_forward, less
\* the clamped steps of skip_backward (the ledger); last_frame_time is the
\* clock reading of the latest tick, paused or not, so the tick that resumes
\* adds its own elapsed real time only.
C27_PausedTimeDiscarded ==
    /\ [](pc \in {"loop", "done"} =>
             /\ current_race_time * 8 = ledger
             /\ last_frame_time = 0)
    /\ [][\A d \in Deltas :
            (is_paused /\ LoopBody("p", d)) =>
                /\ ~is_paused'
                /\ current_race_time' * 8 = current_race_time * 8 + d * playback_speed'
        ]_vars

\* C27 witness: running at speed 0.25 at race time 1 s, which takes a pause,
\* two speed_down keys while paused and the resuming tick of 4 s: the 12 s or
\* more of the paused ticks have added nothing
C27_Witness ==
    /\ InLoop /\ ~is_paused /\ rewinds = 0
    /\ playback_speed = MIN_PLAYBACK_SPEED
    /\ current_race_time = Events[1].Time + 1
    /\ current_race_time * 8 = ledger

====
